---------------------------- MODULE Spec2Model ----------------------------
(***************************************************************************)
(* Model of content.go of go-confluence: the facade operations of the      *)
(* Confluence client (GetContent, CreateContent, UpdateContent,            *)
(* DeleteContent, AddLabel, AddAttachments) and the two recursive          *)
(* pagination routines GetChildPages and GetLabel.                         *)
(*                                                                         *)
(* Strings that the code only concatenates are sequences of segments       *)
(* (a URL is <<root, "content", id, ...>>, a file path is <<dir, name>>).  *)
(* The `expand` argument is only joined into the query string and never    *)
(* read back, so it is left out of the requests.                           *)
(***************************************************************************)
EXTENDS Integers, Sequences, FiniteSets, TLC

(* ------------------------------ bounds --------------------------------- *)
MaxCollection == 4
MaxStart == 2
MaxLimit == 3
MaxAttachments == 3
MaxRequests == 5

(* ------------------------------ values --------------------------------- *)
Nil == "nil"

\* w.endPoint.String(): an absolute base, and a base without scheme or
\* leading slash (url.Parse accepts it, url.ParseRequestURI does not).
Roots == {"https://wiki/rest/api", "wiki/rest/api"}
AbsoluteRoots == {"https://wiki/rest/api"}

\* content identifiers; "%zz" is an invalid percent escape
Ids == {"42", "%zz"}
BadSegments == {"%zz"}

\* local attachment paths as sequences of path segments
Files == {<<"docs", "a.txt">>, <<"img", "b.png">>, <<"c.log">>}

\* pages an unconstrained server may put into a list envelope
FreePages == {<< >>, <<7, 8>>, <<8, 7>>}

Min(a, b) == IF a < b THEN a ELSE b
Max(a, b) == IF a > b THEN a ELSE b

RECURSIVE Concat(_)
Concat(ss) == IF ss = << >> THEN << >> ELSE Head(ss) \o Concat(Tail(ss))

(* ---------------------------- pure helpers ----------------------------- *)
\* strconv.Itoa for the non-negative values used as start and limit: the
\* decimal digits, most significant first
RECURSIVE Itoa(_)
Itoa(n) == IF n < 10 THEN <<n>> ELSE Itoa(n \div 10) \o <<n % 10>>

\* the server side reading of a decimal query parameter
RECURSIVE Atoi(_)
Atoi(d) == IF Len(d) = 1 THEN d[1]
           ELSE 10 * Atoi(SubSeq(d, 1, Len(d) - 1)) + d[Len(d)]

\* url.ParseRequestURI on root + "/content/" + contentID
ParseRequestURI(rawURL) ==
    IF Head(rawURL) \in AbsoluteRoots
       /\ \A i \in 1..Len(rawURL) : rawURL[i] \notin BadSegments
    THEN [url |-> rawURL, err |-> Nil]
    ELSE [url |-> << >>, err |-> "InvalidURL"]

\* func (w *Wiki) contentEndpoint(contentID string) (*url.URL, error)
contentEndpoint(root, contentID) ==
    ParseRequestURI(<<root, "content">> \o contentID)

\* filepath.Base
Base(file) == file[Len(file)]

(* ------------------------- transport and server ------------------------ *)
\* what sendRequest gives back: an error, or a body
TransportFailure == [err |-> "TransportError", kind |-> "none", results |-> << >>, size |-> 0]
Garbage == [err |-> Nil, kind |-> "garbage", results |-> << >>, size |-> 0]
Envelope(items, size) == [err |-> Nil, kind |-> "json", results |-> items, size |-> size]

\* the items at positions s .. min(s+L, n)-1 of a collection of n items;
\* item p is the number p
Window(n, s, L) == [i \in 1..Max(0, Min(s + L, n) - s) |-> s + i - 1]

\* replies of the list endpoints to the query (start, limit)
ListReplies(mode, n, query) ==
    LET s == Atoi(query.start)
        L == Atoi(query.limit)
    IN  {TransportFailure, Garbage} \cup
        CASE mode = "honest" -> {Envelope(Window(n, s, L), Len(Window(n, s, L)))}
          [] mode = "saturating" -> {Envelope(Window(n, s, L), L)}
          [] OTHER -> {Envelope(p, z) : p \in FreePages, z \in 0..(MaxLimit + 1)}

\* replies to a single-entity request
EntityReplies == {TransportFailure, Garbage, Envelope(<<"content">>, 1)}

\* json.Unmarshal(res, &result) into PageResult / LabelResult
Unmarshal(res) ==
    IF res.kind = "json"
    THEN [err |-> Nil, Items |-> res.results, Size |-> res.size]
    ELSE [err |-> "DecodingError", Items |-> << >>, Size |-> 0]

(* ------------------------------- state --------------------------------- *)
VARIABLES
    endPoint,       \* w.endPoint
    collection,     \* number of items the server holds
    serverMode,     \* "honest", "saturating" or "free"
    unopenable,     \* files os.Open fails on
    pc,             \* "idle", "listing", "attaching", "done"
    op,             \* the facade operation called
    callerRequest,  \* the caller's PageRequest value
    content,        \* the *Content argument
    stack,          \* activation records of GetChildPages / GetLabel
    returned,       \* value handed from a returning frame to its caller
    requests,       \* requests given to sendRequest, in order
    responses,      \* what sendRequest answered, in order
    ret,            \* outcome of the facade call
    idx,            \* AddAttachments: index of the next attachment
    parts,          \* AddAttachments: parts written to the multipart body
    defers,         \* AddAttachments: deferred f.Close() calls
    openHandles,    \* file handles currently open
    openedEver      \* file handles opened during the call

vars == <<endPoint, collection, serverMode, unopenable, pc, op, callerRequest,
          content, stack, returned, requests, responses, ret, idx, parts,
          defers, openHandles, openedEver>>

envVars == <<endPoint, collection, serverMode, unopenable>>
listVars == <<callerRequest, stack, returned>>
attachVars == <<idx, parts, defers, openHandles, openedEver>>

NoReturn == [kind |-> "none", ptr |-> Nil, val |-> << >>, err |-> Nil]
Return(val) == [kind |-> "return", ptr |-> "set", val |-> val, err |-> Nil]
ReturnErr(err) == [kind |-> "return", ptr |-> Nil, val |-> << >>, err |-> err]
ReturnNil == [kind |-> "return", ptr |-> Nil, val |-> << >>, err |-> Nil]
Panic == [kind |-> "panic", ptr |-> Nil, val |-> << >>, err |-> Nil]

NoContent == [Id |-> "", Attachments |-> << >>]
NoRequest == [Page |-> NoContent, Start |-> 0, Limit |-> 0]

Init ==
    /\ endPoint \in Roots
    /\ collection = 0
    /\ serverMode = "free"
    /\ unopenable = {}
    /\ pc = "idle"
    /\ op = Nil
    /\ callerRequest = NoRequest
    /\ content = NoContent
    /\ stack = << >>
    /\ returned = NoReturn
    /\ requests = << >>
    /\ responses = << >>
    /\ ret = NoReturn
    /\ idx = 1
    /\ parts = << >>
    /\ defers = << >>
    /\ openHandles = {}
    /\ openedEver = {}

(* ----------------------- GetChildPages / GetLabel ---------------------- *)
\* the server at the time of a listing call: it holds a collection and
\* answers honestly, or reports size == limit whatever it holds, or answers
\* with any envelope
ServerState ==
    \/ /\ serverMode' \in {"honest", "saturating"}
       /\ collection' \in 0..MaxCollection
    \/ /\ serverMode' = "free"
       /\ collection' = 0

\* a caller invokes w.GetChildPages(request, expand)
CallGetChildPages ==
    /\ pc = "idle"
    /\ \E id \in Ids, s \in 0..MaxStart, l \in 0..MaxLimit :
         LET request == [Page |-> [Id |-> id, Attachments |-> << >>],
                         Start |-> s, Limit |-> l]
         IN  /\ callerRequest' = request
             /\ stack' = <<[request |-> request, pages |-> << >>]>>
    /\ pc' = "listing"
    /\ op' = "GetChildPages"
    /\ ServerState
    /\ UNCHANGED <<endPoint, unopenable, content, returned, requests, responses, ret, attachVars>>

\* a caller invokes w.GetLabel(request, expand)
CallGetLabel ==
    /\ pc = "idle"
    /\ \E id \in Ids, s \in 0..MaxStart, l \in 0..MaxLimit :
         LET request == [Page |-> [Id |-> id, Attachments |-> << >>],
                         Start |-> s, Limit |-> l]
         IN  /\ callerRequest' = request
             /\ stack' = <<[request |-> request, labels |-> << >>]>>
    /\ pc' = "listing"
    /\ op' = "GetLabel"
    /\ ServerState
    /\ UNCHANGED <<endPoint, unopenable, content, returned, requests, responses, ret, attachVars>>

\* a frame of the recursion returns res: to the facade caller when it is
\* the outermost frame, to the frame below it otherwise
ReturnFromFrame(res) ==
    IF Len(stack) = 1
    THEN /\ stack' = << >>
         /\ ret' = res
         /\ returned' = NoReturn
         /\ pc' = "done"
    ELSE /\ stack' = SubSeq(stack, 1, Len(stack) - 1)
         /\ returned' = res
         /\ UNCHANGED <<ret, pc>>

MorePagesOnlyBeyondLimit(result, request) == result.Size > 0 /\ result.Size > request.Limit

\* the termination rule of GetChildPages
MorePages(result, request) == result.Size > 0 /\ result.Size = request.Limit

NextPageRequestFromSize(request, result) ==
    [Page |-> request.Page, Start |-> result.Size, Limit |-> request.Limit]

\* the continuation request of GetChildPages
NextPageRequest(request, result) ==
    [Page |-> request.Page, Start |-> request.Start + result.Size, Limit |-> request.Limit]

MoreLabelsWhileFull(result, request) == result.Size = request.Limit

MoreLabelsWhileNonEmpty(result, request) == result.Size > 0

\* the termination rule of GetLabel
MoreLabels(result, request) == result.Size > 0 /\ result.Size = request.Limit

NextLabelRequestSkipping(request, result) ==
    [Page |-> request.Page, Start |-> request.Start + result.Size + 1, Limit |-> request.Limit]

\* the continuation request of GetLabel
NextLabelRequest(request, result) ==
    [Page |-> request.Page, Start |-> request.Start + result.Size, Limit |-> request.Limit]

AppendPagesInFront(pages, addPages) == addPages \o pages

\* pages = append(pages, *addPages...)
AppendPages(pages, addPages) == pages \o addPages

\* labels = append(labels, *addLabels...)
AppendLabels(labels, addLabels) == labels \o addLabels

\* what GetChildPages returns once the recursive call has returned
\* (addPages, err)
PagesAfterCall(pages, addPages, err) ==
    IF err # Nil THEN ReturnErr(err) ELSE Return(AppendPages(pages, addPages))

LabelsAfterCallKeepingPartial(labels, addLabels, err) ==
    IF err # Nil THEN Return(labels) ELSE Return(AppendLabels(labels, addLabels))

\* what GetLabel returns once the recursive call has returned
\* (addLabels, err)
LabelsAfterCall(labels, addLabels, err) ==
    IF err # Nil THEN ReturnErr(err) ELSE Return(AppendLabels(labels, addLabels))

\* the GET request of a list call, start and limit as decimal strings
ListRequest(url, request) ==
    [method |-> "GET", url |-> url,
     query |-> [start |-> Itoa(request.Start), limit |-> Itoa(request.Limit)],
     body |-> << >>]

\* GetChildPages from its entry up to the recursive call or the return
GetChildPages ==
    /\ pc = "listing"
    /\ op = "GetChildPages"
    /\ returned.kind = "none"
    /\ Len(requests) < MaxRequests
    /\ LET frame == stack[Len(stack)]
           request == frame.request
           contentEndPoint == contentEndpoint(endPoint, <<request.Page.Id, "child", "page">>)
       IN  IF contentEndPoint.err # Nil
           THEN /\ ReturnFromFrame(ReturnErr(contentEndPoint.err))
                /\ UNCHANGED <<requests, responses>>
           ELSE LET req == ListRequest(contentEndPoint.url, request)
                IN  /\ requests' = Append(requests, req)
                    /\ \E res \in ListReplies(serverMode, collection, req.query) :
                         /\ responses' = Append(responses, res)
                         /\ IF res.err # Nil
                            THEN ReturnFromFrame(ReturnErr(res.err))
                            ELSE LET result == Unmarshal(res)
                                     pages == AppendPages(frame.pages, result.Items)
                                 IN  IF result.err # Nil
                                     THEN ReturnFromFrame(ReturnErr(result.err))
                                     ELSE IF MorePages(result, request)
                                     THEN /\ stack' = [stack EXCEPT ![Len(stack)].pages = pages]
                                                      \o <<[request |-> NextPageRequest(request, result),
                                                            pages |-> << >>]>>
                                          /\ UNCHANGED <<returned, ret, pc>>
                                     ELSE ReturnFromFrame(Return(pages))
    /\ UNCHANGED <<envVars, op, callerRequest, content, attachVars>>

\* GetChildPages after the recursive call has returned
GetChildPagesResume ==
    /\ pc = "listing"
    /\ op = "GetChildPages"
    /\ returned.kind # "none"
    /\ LET frame == stack[Len(stack)]
       IN  ReturnFromFrame(PagesAfterCall(frame.pages, returned.val, returned.err))
    /\ UNCHANGED <<envVars, op, callerRequest, content, requests, responses, attachVars>>

\* GetLabel from its entry up to the recursive call or the return
GetLabel ==
    /\ pc = "listing"
    /\ op = "GetLabel"
    /\ returned.kind = "none"
    /\ Len(requests) < MaxRequests
    /\ LET frame == stack[Len(stack)]
           request == frame.request
           contentEndPoint == contentEndpoint(endPoint, <<request.Page.Id, "label">>)
       IN  IF contentEndPoint.err # Nil
           THEN /\ ReturnFromFrame(ReturnErr(contentEndPoint.err))
                /\ UNCHANGED <<requests, responses>>
           ELSE LET req == ListRequest(contentEndPoint.url, request)
                IN  /\ requests' = Append(requests, req)
                    /\ \E res \in ListReplies(serverMode, collection, req.query) :
                         /\ responses' = Append(responses, res)
                         /\ IF res.err # Nil
                            THEN ReturnFromFrame(ReturnErr(res.err))
                            ELSE LET result == Unmarshal(res)
                                     labels == AppendLabels(frame.labels, result.Items)
                                 IN  IF result.err # Nil
                                     THEN ReturnFromFrame(ReturnErr(result.err))
                                     ELSE IF MoreLabels(result, request)
                                     THEN /\ stack' = [stack EXCEPT ![Len(stack)].labels = labels]
                                                      \o <<[request |-> NextLabelRequest(request, result),
                                                            labels |-> << >>]>>
                                          /\ UNCHANGED <<returned, ret, pc>>
                                     ELSE ReturnFromFrame(Return(labels))
    /\ UNCHANGED <<envVars, op, callerRequest, content, attachVars>>

\* GetLabel after the recursive call has returned
GetLabelResume ==
    /\ pc = "listing"
    /\ op = "GetLabel"
    /\ returned.kind # "none"
    /\ LET frame == stack[Len(stack)]
       IN  ReturnFromFrame(LabelsAfterCall(frame.labels, returned.val, returned.err))
    /\ UNCHANGED <<envVars, op, callerRequest, content, requests, responses, attachVars>>

(* --------------------------- single requests --------------------------- *)
Contents == [Id : Ids, Attachments : {<< >>}]

EntityRequest(method, url, body) ==
    [method |-> method, url |-> url, query |-> [start |-> << >>, limit |-> << >>],
     body |-> body]

\* func (w *Wiki) DeleteContent(contentID string) error
DeleteContent ==
    /\ pc = "idle"
    /\ \E c \in Contents :
         LET contentEndPoint == contentEndpoint(endPoint, <<c.Id>>)
         IN  /\ content' = c
             /\ IF contentEndPoint.err # Nil
                THEN /\ ret' = ReturnErr(contentEndPoint.err)
                     /\ UNCHANGED <<requests, responses>>
                ELSE /\ requests' = <<EntityRequest("DELETE", contentEndPoint.url, << >>)>>
                     /\ \E res \in EntityReplies :
                          /\ responses' = <<res>>
                          /\ ret' = IF res.err # Nil THEN ReturnErr(res.err) ELSE ReturnNil
    /\ pc' = "done"
    /\ op' = "DeleteContent"
    /\ UNCHANGED <<envVars, listVars, attachVars>>

\* func (w *Wiki) GetContent(contentID string, expand []string) (*Content, error)
GetContent ==
    /\ pc = "idle"
    /\ \E c \in Contents :
         LET contentEndPoint == contentEndpoint(endPoint, <<c.Id>>)
         IN  /\ content' = c
             /\ IF contentEndPoint.err # Nil
                THEN /\ ret' = ReturnErr(contentEndPoint.err)
                     /\ UNCHANGED <<requests, responses>>
                ELSE /\ requests' = <<EntityRequest("GET", contentEndPoint.url, << >>)>>
                     /\ \E res \in EntityReplies :
                          /\ responses' = <<res>>
                          /\ ret' = IF res.err # Nil THEN ReturnErr(res.err)
                                    ELSE IF Unmarshal(res).err # Nil
                                    THEN ReturnErr(Unmarshal(res).err)
                                    ELSE Return(Unmarshal(res).Items)
    /\ pc' = "done"
    /\ op' = "GetContent"
    /\ UNCHANGED <<envVars, listVars, attachVars>>

\* json.Marshal(content): a Content holds only strings, integers and
\* slices of them, which always encode
Marshal(c) == [err |-> Nil, json |-> <<c.Id>>]

\* func (w *Wiki) UpdateContent(content *Content) (*Content, error)
\* The error of contentEndpoint is overwritten unread; on failure
\* contentEndPoint is nil and contentEndPoint.String() dereferences it.
UpdateContent ==
    /\ pc = "idle"
    /\ \E c \in Contents :
         LET jsonbody == Marshal(c)
             contentEndPoint == contentEndpoint(endPoint, <<c.Id>>)
         IN  /\ content' = c
             /\ IF jsonbody.err # Nil
                THEN /\ ret' = ReturnErr(jsonbody.err)
                     /\ UNCHANGED <<requests, responses>>
                ELSE IF contentEndPoint.err # Nil
                THEN /\ ret' = Panic
                     /\ UNCHANGED <<requests, responses>>
                ELSE /\ requests' = <<EntityRequest("PUT", contentEndPoint.url, jsonbody.json)>>
                     /\ \E res \in EntityReplies :
                          /\ responses' = <<res>>
                          /\ ret' = IF res.err # Nil THEN ReturnErr(res.err)
                                    ELSE IF Unmarshal(res).err # Nil
                                    THEN ReturnErr(Unmarshal(res).err)
                                    ELSE Return(Unmarshal(res).Items)
    /\ pc' = "done"
    /\ op' = "UpdateContent"
    /\ UNCHANGED <<envVars, listVars, attachVars>>

\* func (w *Wiki) CreateContent(content *Content) (*Content, error)
CreateContent ==
    /\ pc = "idle"
    /\ \E c \in Contents :
         LET jsonbody == Marshal(c)
             contentEndPoint == contentEndpoint(endPoint, <<"">>)
         IN  /\ content' = c
             /\ IF jsonbody.err # Nil
                THEN /\ ret' = ReturnErr(jsonbody.err)
                     /\ UNCHANGED <<requests, responses>>
                ELSE IF contentEndPoint.err # Nil
                THEN /\ ret' = Panic
                     /\ UNCHANGED <<requests, responses>>
                ELSE /\ requests' = <<EntityRequest("POST", contentEndPoint.url, jsonbody.json)>>
                     /\ \E res \in EntityReplies :
                          /\ responses' = <<res>>
                          /\ ret' = IF res.err # Nil THEN ReturnErr(res.err)
                                    ELSE IF Unmarshal(res).err # Nil
                                    THEN ReturnErr(Unmarshal(res).err)
                                    ELSE Return(Unmarshal(res).Items)
    /\ pc' = "done"
    /\ op' = "CreateContent"
    /\ UNCHANGED <<envVars, listVars, attachVars>>

\* func (w *Wiki) AddLabel(content *Content) (*Content, error)
AddLabel ==
    /\ pc = "idle"
    /\ \E c \in Contents :
         LET jsonbody == Marshal(c)
             contentEndPoint == contentEndpoint(endPoint, <<c.Id, "label">>)
         IN  /\ content' = c
             /\ IF jsonbody.err # Nil
                THEN /\ ret' = ReturnErr(jsonbody.err)
                     /\ UNCHANGED <<requests, responses>>
                ELSE IF contentEndPoint.err # Nil
                THEN /\ ret' = Panic
                     /\ UNCHANGED <<requests, responses>>
                ELSE /\ requests' = <<EntityRequest("POST", contentEndPoint.url, jsonbody.json)>>
                     /\ \E res \in EntityReplies :
                          /\ responses' = <<res>>
                          /\ ret' = IF res.err # Nil THEN ReturnErr(res.err)
                                    ELSE IF Unmarshal(res).err # Nil
                                    THEN ReturnErr(Unmarshal(res).err)
                                    ELSE Return(Unmarshal(res).Items)
    /\ pc' = "done"
    /\ op' = "AddLabel"
    /\ UNCHANGED <<envVars, listVars, attachVars>>

(* ---------------------------- AddAttachments --------------------------- *)
RECURSIVE SeqsUpTo(_, _)
SeqsUpTo(S, n) ==
    IF n = 0 THEN {<< >>}
    ELSE LET shorter == SeqsUpTo(S, n - 1)
         IN  shorter \cup {Append(q, x) : q \in shorter, x \in S}

\* the deferred f.Close() calls run when AddAttachments exits, last
\* registered first; each closes its own handle
RunDefersLastOnly(ds, open) ==
    IF ds = << >> THEN open ELSE open \ {ds[Len(ds)]}

RECURSIVE RunDefers(_, _)
RunDefers(ds, open) ==
    IF ds = << >> THEN open
    ELSE RunDefers(SubSeq(ds, 1, Len(ds) - 1), open \ {ds[Len(ds)]})

FormFile(file) == [fieldname |-> "file", filename |-> Base(file), data |-> file]

\* AddAttachments is called: body and writer are created empty
CallAddAttachments ==
    /\ pc = "idle"
    /\ \E id \in Ids, files \in SeqsUpTo(Files, MaxAttachments) :
         content' = [Id |-> id, Attachments |-> files]
    /\ unopenable' \in SUBSET Files
    /\ pc' = "attaching"
    /\ op' = "AddAttachments"
    /\ idx' = 1
    /\ parts' = << >>
    /\ defers' = << >>
    /\ UNCHANGED <<endPoint, collection, serverMode, listVars, requests,
                   responses, ret, openHandles, openedEver>>

AddAttachmentsFileAbortOnOpen ==
    /\ pc = "attaching"
    /\ idx <= Len(content.Attachments)
    /\ LET file == content.Attachments[idx]
       IN  IF file \in unopenable
           THEN /\ ret' = ReturnErr("OpenError")
                /\ pc' = "done"
                /\ openHandles' = RunDefers(defers, openHandles)
                /\ UNCHANGED <<parts, defers, idx, openedEver>>
           ELSE /\ openedEver' = openedEver \cup {idx}
                /\ defers' = Append(defers, idx)
                /\ \E outcome \in {"ok", "CreatePartError", "TransferError"} :
                     IF outcome = "ok"
                     THEN /\ parts' = Append(parts, FormFile(file))
                          /\ idx' = idx + 1
                          /\ openHandles' = openHandles \cup {idx}
                          /\ UNCHANGED <<ret, pc>>
                     ELSE /\ ret' = ReturnErr(outcome)
                          /\ pc' = "done"
                          /\ openHandles' = RunDefers(defers', openHandles \cup {idx})
                          /\ UNCHANGED <<parts, idx>>
    /\ UNCHANGED <<envVars, op, content, listVars, requests, responses>>

\* one iteration of the loop over content.Attachments; the handle of the
\* file at position idx is named idx
AddAttachmentsFile ==
    /\ pc = "attaching"
    /\ idx <= Len(content.Attachments)
    /\ LET file == content.Attachments[idx]
       IN  IF file \in unopenable
           THEN /\ idx' = idx + 1
                /\ UNCHANGED <<parts, defers, openHandles, openedEver, ret, pc>>
           ELSE /\ openedEver' = openedEver \cup {idx}
                /\ defers' = Append(defers, idx)
                /\ \E outcome \in {"ok", "CreatePartError", "TransferError"} :
                     IF outcome = "ok"
                     THEN /\ parts' = Append(parts, FormFile(file))
                          /\ idx' = idx + 1
                          /\ openHandles' = openHandles \cup {idx}
                          /\ UNCHANGED <<ret, pc>>
                     ELSE /\ ret' = ReturnErr(outcome)
                          /\ pc' = "done"
                          /\ openHandles' = RunDefers(defers', openHandles \cup {idx})
                          /\ UNCHANGED <<parts, idx>>
    /\ UNCHANGED <<envVars, op, content, listVars, requests, responses>>

\* AddAttachments after the loop: close the writer, build and send the
\* request, decode the answer.  The error of contentEndpoint is overwritten
\* unread, as in UpdateContent.
AddAttachmentsSend ==
    /\ pc = "attaching"
    /\ idx > Len(content.Attachments)
    /\ LET contentEndPoint == contentEndpoint(endPoint, <<content.Id, "child", "attachment">>)
       IN  \E closed \in {"ok", "CloseError"} :
             IF closed # "ok"
             THEN /\ ret' = ReturnErr(closed)
                  /\ UNCHANGED <<requests, responses>>
             ELSE IF contentEndPoint.err # Nil
             THEN /\ ret' = Panic
                  /\ UNCHANGED <<requests, responses>>
             ELSE /\ requests' = <<EntityRequest("POST", contentEndPoint.url, parts)>>
                  /\ \E res \in EntityReplies :
                       /\ responses' = <<res>>
                       /\ ret' = IF res.err # Nil THEN ReturnErr(res.err)
                                 ELSE IF Unmarshal(res).err # Nil
                                 THEN ReturnErr(Unmarshal(res).err)
                                 ELSE Return(Unmarshal(res).Items)
    /\ pc' = "done"
    /\ openHandles' = RunDefers(defers, openHandles)
    /\ UNCHANGED <<envVars, op, content, listVars, idx, parts, defers, openedEver>>

Next ==
    \/ CallGetChildPages
    \/ GetChildPages
    \/ GetChildPagesResume
    \/ CallGetLabel
    \/ GetLabel
    \/ GetLabelResume
    \/ DeleteContent
    \/ GetContent
    \/ UpdateContent
    \/ CreateContent
    \/ AddLabel
    \/ CallAddAttachments
    \/ AddAttachmentsFile
    \/ AddAttachmentsSend

Spec == Init /\ [][Next]_vars

\* a call that has been made runs on: every step of the synchronous code is
\* taken as soon as it can be
FairSpec == Init /\ [][Next]_vars /\ WF_vars(Next)


(* ------------------------------ properties ----------------------------- *)
Listing == op \in {"GetChildPages", "GetLabel"}

\* the window (start, limit) carried by the i-th request
ReqStart(i) == Atoi(requests[i].query.start)
ReqLimit(i) == Atoi(requests[i].query.limit)

\* the i-th answer was delivered and decoded
Decoded(i) == responses[i].err = Nil /\ responses[i].kind = "json"
AllDecoded == \A i \in 1..Len(responses) : Decoded(i)

\* the error the i-th request ended with
ErrorOf(i) == IF responses[i].err # Nil THEN responses[i].err ELSE "DecodingError"

\* the items of all answers, in request order
AllItems == Concat([i \in 1..Len(responses) |-> responses[i].results])

Saturated(i) == responses[i].size > 0 /\ responses[i].size = ReqLimit(i)

\* C1: a paginated call with limit L >= 1 that is answered with N >= 0
\* pages of size L and then one page of size less than L returns, without
\* error, exactly the concatenation of the items of the N+1 pages, in
\* request order and in the order of each page.
C1_FullPagesThenShortPage ==
    (/\ pc = "done"
     /\ Listing
     /\ callerRequest.Limit >= 1
     /\ Len(responses) >= 1
     /\ AllDecoded
     /\ \A i \in 1..(Len(responses) - 1) : responses[i].size = callerRequest.Limit
     /\ responses[Len(responses)].size < callerRequest.Limit)
    => (ret.kind = "return" /\ ret.err = Nil /\ ret.ptr = "set" /\ ret.val = AllItems)

C1_Witness ==
    /\ pc = "done"
    /\ Listing
    /\ callerRequest.Limit >= 1
    /\ Len(responses) = 3
    /\ AllDecoded
    /\ responses[1].size = callerRequest.Limit
    /\ responses[2].size = callerRequest.Limit
    /\ responses[3].size < callerRequest.Limit
    /\ responses[1].results = <<8, 7>>
    /\ responses[2].results = <<7, 8>>
    /\ ret.val = <<8, 7, 7, 8>>

\* C2: after a decoded page a further list request is issued if and only
\* if the reported size is greater than 0 and equal to the limit of the
\* request; otherwise the call returns without another request.
C2_ContinueIffSaturated ==
    Listing =>
      \A i \in 1..Len(responses) :
        Decoded(i) =>
          /\ (i < Len(requests)) => Saturated(i)
          /\ (Saturated(i) /\ i = Len(requests)) =>
                (/\ pc = "listing"
                 /\ Len(stack) = i + 1
                 /\ returned.kind = "none"
                 /\ contentEndpoint(endPoint, <<callerRequest.Page.Id>>).err = Nil)
          /\ (~Saturated(i)) => (i = Len(requests) /\ Len(stack) < i)

C2_Witness ==
    /\ pc = "done"
    /\ Listing
    /\ Len(requests) = 2
    /\ AllDecoded
    /\ Saturated(1)
    /\ responses[2].size > ReqLimit(2)

\* C3: with limit L >= 1 and a server holding exactly one page of L items
\* from start on, the call issues exactly two list requests, for the windows
\* (start, L) and (start + L, L); the second answer is empty or an error.
C3_OneExtraRequest ==
    (/\ Listing
     /\ serverMode = "honest"
     /\ callerRequest.Limit >= 1
     /\ collection = callerRequest.Start + callerRequest.Limit
     /\ Len(responses) >= 1
     /\ Decoded(1))
    => /\ Len(requests) <= 2
       /\ pc = "done" =>
            /\ Len(requests) = 2
            /\ ReqStart(1) = callerRequest.Start
            /\ ReqLimit(1) = callerRequest.Limit
            /\ ReqStart(2) = callerRequest.Start + callerRequest.Limit
            /\ ReqLimit(2) = callerRequest.Limit
            /\ (~Decoded(2) \/ (responses[2].results = << >> /\ responses[2].size = 0))

C3_Witness ==
    /\ pc = "done"
    /\ Listing
    /\ serverMode = "honest"
    /\ callerRequest.Limit = 2
    /\ collection = callerRequest.Start + 2
    /\ Len(requests) = 2
    /\ AllDecoded
    /\ Len(ret.val) = 2

\* C4: a paginated call returns either the whole accumulated sequence with
\* a nil error or a nil result with a non-nil error; when the k-th request
\* fails, the pages fetched before are discarded, the error of that request
\* is returned unchanged and no further request is issued.
C4_AllOrError ==
    (pc = "done" /\ Listing) =>
      /\ ret.kind = "return"
      /\ \/ /\ ret.err = Nil
            /\ ret.ptr = "set"
            /\ AllDecoded
            /\ ret.val = AllItems
         \/ /\ ret.err # Nil
            /\ ret.ptr = Nil
            /\ ret.val = << >>
      /\ \A k \in 1..Len(responses) :
            ~Decoded(k) => (/\ k = Len(requests)
                            /\ ret.ptr = Nil
                            /\ ret.val = << >>
                            /\ ret.err = ErrorOf(k))

C4_Witness ==
    /\ pc = "done"
    /\ Listing
    /\ Len(responses) = 3
    /\ Decoded(1)
    /\ Decoded(2)
    /\ responses[1].results # << >>
    /\ responses[3].err = "TransportError"
    /\ ret.err = "TransportError"
    /\ ret.ptr = Nil

\* the endpoint the called operation builds
EndpointOfCall ==
    CASE op = "GetChildPages" -> contentEndpoint(endPoint, <<callerRequest.Page.Id, "child", "page">>)
      [] op = "GetLabel" -> contentEndpoint(endPoint, <<callerRequest.Page.Id, "label">>)
      [] op = "CreateContent" -> contentEndpoint(endPoint, <<"">>)
      [] op = "AddLabel" -> contentEndpoint(endPoint, <<content.Id, "label">>)
      [] op = "AddAttachments" -> contentEndpoint(endPoint, <<content.Id, "child", "attachment">>)
      [] OTHER -> contentEndpoint(endPoint, <<content.Id>>)

\* C5: when endpoint construction fails, every facade operation returns
\* that InvalidURL error to its caller, sends nothing to the transport and
\* ends in no other outcome.
C5_InvalidURLSurfaces ==
    (pc = "done" /\ EndpointOfCall.err # Nil /\ ret.err \notin {"CreatePartError", "TransferError", "CloseError"})
    => (ret = ReturnErr("InvalidURL") /\ requests = << >>)

\* the parts AddAttachments owes for a list of paths: one per openable
\* file, in the order of the paths
RECURSIVE ExpectedParts(_)
ExpectedParts(files) ==
    IF files = << >> THEN << >>
    ELSE (IF Head(files) \in unopenable THEN << >>
          ELSE <<[fieldname |-> "file", filename |-> Head(files)[Len(Head(files))],
                  data |-> Head(files)]>>)
         \o ExpectedParts(Tail(files))

\* C6: the multipart body of AddAttachments holds one part for every
\* openable file and none for an unopenable one, in the order of
\* content.Attachments; a file that cannot be opened never makes the call
\* return an error or stop before the later files.
C6_SkipUnopenable ==
    op = "AddAttachments" =>
      /\ pc = "attaching" => parts = ExpectedParts(SubSeq(content.Attachments, 1, idx - 1))
      /\ requests # << >> => requests[1].body = ExpectedParts(content.Attachments)
      /\ (pc = "done" /\ ret.kind = "return") =>
           \/ ret.err \in {"CreatePartError", "TransferError"}
           \/ /\ idx = Len(content.Attachments) + 1
              /\ ret.err \in {Nil, "CloseError", "TransportError", "DecodingError"}
              /\ ret.err # "CloseError" => requests # << >>

C6_Witness ==
    /\ op = "AddAttachments"
    /\ pc = "done"
    /\ ret.kind = "return"
    /\ ret.err = Nil
    /\ Len(requests) = 1
    /\ Len(content.Attachments) = 3
    /\ content.Attachments[1] \notin unopenable
    /\ content.Attachments[2] \in unopenable
    /\ content.Attachments[3] \notin unopenable
    /\ Len(requests[1].body) = 2
    /\ requests[1].body[2].data = content.Attachments[3]

\* C7: once AddAttachments has exited, on any path, no file handle opened
\* during the call is still open.
C7_HandlesReleased ==
    (op = "AddAttachments" /\ pc = "done") => openHandles = {}

C7_Witness ==
    /\ op = "AddAttachments"
    /\ pc = "done"
    /\ ret.err = "TransferError"
    /\ Cardinality(openedEver) >= 2
    /\ openHandles = {}

\* C8: every continuation request carries the previous start plus the size
\* of the previous response, the limit and the parent Content of the
\* original request, so the k-th request has window (start0 + k*L, L); the
\* caller's PageRequest stays as it was.
C8_WindowAdvance ==
    Listing =>
      /\ \A i \in 1..Len(requests) :
           /\ ReqLimit(i) = callerRequest.Limit
           /\ requests[i].url = requests[1].url
           /\ callerRequest.Page.Id \in {requests[i].url[j] : j \in 1..Len(requests[i].url)}
           /\ ReqStart(i) = callerRequest.Start + (i - 1) * callerRequest.Limit
           /\ i > 1 => ReqStart(i) = ReqStart(i - 1) + responses[i - 1].size
      /\ \A d \in 1..Len(stack) :
           /\ stack[d].request.Page = callerRequest.Page
           /\ stack[d].request.Limit = callerRequest.Limit
           /\ stack[d].request.Start = callerRequest.Start + (d - 1) * callerRequest.Limit
      /\ stack # << >> => stack[1].request = callerRequest

C8_Witness ==
    /\ Listing
    /\ callerRequest.Start = 1
    /\ callerRequest.Limit = 2
    /\ Len(requests) = 3
    /\ ReqStart(3) = 5

\* C9 as stated: for a collection whose item count is a positive multiple
\* of the limit, the returned sequence holds fewer items than the
\* collection.
C9_UnderFetch ==
    (/\ pc = "done"
     /\ Listing
     /\ serverMode = "honest"
     /\ callerRequest.Limit >= 1
     /\ collection > 0
     /\ collection % callerRequest.Limit = 0
     /\ ret.err = Nil)
    => Len(ret.val) < collection

\* C9 amended: for a collection whose item count n is a positive multiple
\* of the limit, a call that returns without error returns every item of
\* the collection from start on, in order (all n items for start 0); when
\* the last page is exactly full the call spends one more request, which
\* comes back empty.
C9_NoUnderFetch ==
    (/\ pc = "done"
     /\ Listing
     /\ serverMode = "honest"
     /\ callerRequest.Limit >= 1
     /\ collection > 0
     /\ collection % callerRequest.Limit = 0
     /\ callerRequest.Start <= collection
     /\ ret.err = Nil)
    => /\ ret.val = [i \in 1..(collection - callerRequest.Start) |-> callerRequest.Start + i - 1]
       /\ (collection - callerRequest.Start) % callerRequest.Limit = 0 =>
            /\ responses[Len(responses)].results = << >>
            /\ Len(requests) = (collection - callerRequest.Start) \div callerRequest.Limit + 1

C9_Witness ==
    /\ pc = "done"
    /\ Listing
    /\ serverMode = "honest"
    /\ callerRequest.Start = 0
    /\ callerRequest.Limit = 2
    /\ collection = 4
    /\ ret.err = Nil
    /\ ret.val = <<0, 1, 2, 3>>
    /\ Len(requests) = 3

\* the requests a call needs against the windowed server
RequestsNeeded ==
    IF callerRequest.Limit >= 1 /\ callerRequest.Start <= collection
    THEN (collection - callerRequest.Start) \div callerRequest.Limit + 1
    ELSE 1

C10_Counts ==
    Listing =>
      /\ (/\ pc = "done"
          /\ serverMode = "honest"
          /\ callerRequest.Limit >= 1
          /\ callerRequest.Start <= collection
          /\ ret.err = Nil)
         => Len(requests) = (collection - callerRequest.Start) \div callerRequest.Limit + 1
      /\ (serverMode = "honest" /\ callerRequest.Limit >= 1 /\ callerRequest.Start <= collection)
         => Len(requests) <= (collection - callerRequest.Start) \div callerRequest.Limit + 1
      /\ callerRequest.Limit = 0 =>
           /\ Len(requests) <= 1
           /\ (pc = "done" /\ EndpointOfCall.err = Nil) => Len(requests) = 1
      /\ (serverMode = "saturating" /\ callerRequest.Limit >= 1)
         => ~(pc = "done" /\ ret.err = Nil)

\* C10: against a server that answers each window with the items it holds
\* there, a call returns: with limit L >= 1 and start <= n after exactly
\* floor((n - start) / L) + 1 requests, with limit 0 after one request
\* whatever the server answers.  Against a server that reports
\* size == limit on every response a call with L >= 1 never returns a
\* result.  (A call that needs more than MaxRequests requests is cut off by
\* the bound of the model.)
C10_Terminates ==
    /\ []C10_Counts
    /\ (Listing /\ serverMode = "honest" /\ RequestsNeeded <= MaxRequests) ~> (pc = "done")
    /\ (Listing /\ callerRequest.Limit = 0) ~> (pc = "done" /\ Len(requests) <= 1)

C10_Witness ==
    /\ pc = "done"
    /\ Listing
    /\ serverMode = "honest"
    /\ callerRequest.Start = 1
    /\ callerRequest.Limit = 1
    /\ collection = 3
    /\ ret.err = Nil
    /\ Len(requests) = 3

=============================================================================
